---- MODULE Spec2Model ----
(***************************************************************************)
(* Model of src/addon/firstrun.py: the module-level startup routine of the *)
(* add-on.  One startup run is the sequence                                *)
(*   Version() ; distinguish_initial_install() ;                           *)
(*   change_resize_image_preserve_ratio() ; change_special_formatting() ;  *)
(*   remove_undo() ; tutorial guard ; save current version.                *)
(* The configuration store is a key/value map held in memory (conf) and    *)
(* persisted by conf.save() (disk).  Python values carry their type, since *)
(* the code branches on isinstance().  Strings are sequences of one-       *)
(* character strings so that split(".") and int() are computed.            *)
(***************************************************************************)
EXTENDS Integers, Sequences, FiniteSets, TLC

(* ---------------------------- bounds ---------------------------------- *)
\* number of startup runs explored in one behaviour
MaxRuns == 2

(* ------------------------- Python values ------------------------------ *)
PyInt(i)  == [t |-> "int",  n |-> i, s |-> <<>>]
PyBool(b) == [t |-> "bool", n |-> IF b THEN 1 ELSE 0, s |-> <<>>]
PyStr(x)  == [t |-> "str",  n |-> 0, s |-> x]
None    == [t |-> "none", n |-> 0, s |-> <<>>]
\* marker for "key not in the dict"
Absent  == [t |-> "absent", n |-> 0, s |-> <<>>]

\* isinstance(v, bool)
IsBool(v) == v.t = "bool"
\* isinstance(v, str)
IsStr(v) == v.t = "str"
\* Python truthiness of conf.get(key, None)
TruthyAlways(v) == v.t # "absent"
Truthy(v) ==
  CASE v.t = "absent" -> FALSE
    [] v.t = "none"   -> FALSE
    [] v.t = "str"    -> v.s # <<>>
    [] OTHER          -> v.n # 0

DigitVal(c) ==
  CASE c = "0" -> 0 [] c = "1" -> 1 [] c = "2" -> 2 [] c = "3" -> 3
    [] c = "4" -> 4 [] c = "5" -> 5 [] c = "6" -> 6 [] c = "7" -> 7
    [] c = "8" -> 8 [] c = "9" -> 9

RECURSIVE ParseNat(_)
ParseNat(s) ==
  IF s = <<>> THEN 0
  ELSE ParseNat(SubSeq(s, 1, Len(s) - 1)) * 10 + DigitVal(s[Len(s)])

\* int(s) for a decimal string s
ParseInt(s) == IF s[1] = "-" THEN 0 - ParseNat(Tail(s)) ELSE ParseNat(s)

\* s.split(".")
RECURSIVE Split(_)
Split(s) ==
  IF \E i \in 1..Len(s) : s[i] = "."
  THEN LET i == CHOOSE k \in 1..Len(s) :
                  s[k] = "." /\ \A j \in 1..(k - 1) : s[j] # "."
       IN  <<SubSeq(s, 1, i - 1)>> \o Split(SubSeq(s, i + 1, Len(s)))
  ELSE <<s>>

\* a == b for a stored Python value a and an int b (a str never equals an int)
PyEqInt(a, b) == a.t \in {"int", "bool"} /\ a.n = b

(* ------------------------- configuration ------------------------------ *)
ZKeys == {"highlight", "bold"}

\* an entry of the old z_special_formatting dict
NoOpt        == [kind |-> "absent", e0 |-> None, e1 |-> None]
Scalar(v)    == [kind |-> "scalar", e0 |-> v,    e1 |-> None]
List(v0, v1) == [kind |-> "list",   e0 |-> v0,   e1 |-> v1]

NoArg == [present |-> FALSE, type |-> "", value |-> None]
Arg(ty, v) == [present |-> TRUE, type |-> ty, value |-> v]

Keys == {"version.major", "version.minor", "resize_image_preserve_ratio",
         "undo", "z_special_formatting", "special_formatting", "ctrl_click"}

\* the settings an old or current config can hold
VersionStrings == {<<"6", ".", "5">>, <<"7", ".", "0">>}
StoredInts == {<<PyInt(-1), PyInt(-1)>>, <<PyInt(0), PyInt(0)>>,
               <<PyInt(6), PyInt(23)>>, <<PyInt(7), PyInt(0)>>}
StoredStrs == {<<PyStr(<<"6">>), PyStr(<<"5">>)>>,
               <<PyStr(<<"6">>), PyStr(<<"2", "3">>)>>}
\* version.major and version.minor are written together, either by this
\* routine (two ints, lines 56-57 and 210-211), by the default config
\* (-1, -1) or by v6.x (two strings, line 19)
StoredVersions == StoredInts \cup StoredStrs
ResizeValues == {PyBool(TRUE), PyBool(FALSE), PyInt(0), PyInt(2)}
UndoValues == {Absent, PyBool(TRUE), PyBool(FALSE)}
OptValues == {NoOpt, Scalar(PyBool(TRUE)), List(PyBool(TRUE), None),
              List(PyBool(FALSE), PyStr(<<"x">>))}
NoZ == [present |-> FALSE, d |-> [k \in ZKeys |-> NoOpt]]
ZValues == {NoZ} \cup {[present |-> TRUE, d |-> f] : f \in [ZKeys -> OptValues]}
NoEntry == [enabled |-> Absent, arg |-> NoArg]
SFValues == {[k \in ZKeys |-> NoEntry],
             [k \in ZKeys |-> IF k = "highlight"
                               THEN [enabled |-> PyBool(FALSE),
                                     arg |-> Arg("color", PyStr(<<"o">>))]
                               ELSE [enabled |-> PyBool(TRUE), arg |-> NoArg]]}
CtrlValues == {PyBool(TRUE), PyBool(FALSE)}
EnvValues == {Absent, PyStr(<<>>), PyStr(<<"7", ".", "0">>)}
MetaValues == {Absent, PyStr(<<"6", ".", "5">>)}

MkConf(ver, r, u, z, sf, cc) ==
  [k \in Keys |->
     CASE k = "version.major" -> ver[1]
       [] k = "version.minor" -> ver[2]
       [] k = "resize_image_preserve_ratio" -> r
       [] k = "undo" -> u
       [] k = "z_special_formatting" -> z
       [] k = "special_formatting" -> sf
       [] k = "ctrl_click" -> cc]

InitConfs ==
  {MkConf(ver, r, u, z, sf, cc) :
     ver \in StoredVersions, r \in ResizeValues, u \in UndoValues,
     z \in ZValues, sf \in SFValues, cc \in CtrlValues}

(* ----------------------------- state ---------------------------------- *)
VARIABLES
  conf,            \* the ConfigManager's in-memory config
  disk,            \* the config as last written by conf.save()
  version,         \* the module-level Version object
  env,             \* os.environ.get("EFDRC_VERSION")
  meta,            \* addonMeta(...).get("human_version"), Absent if missing
  version_string,  \* the module-level local of line 204
  pc,              \* position in the module body
  run,             \* number of the current startup run
  conf0,           \* history: the config this run started from
  fired,           \* history: the rewrites that fired in this run
  shown,           \* history: showText was called in this run
  nsaves,          \* history: conf.save() calls in this run
  prev_string      \* history: version_string of the previous run

vars == <<conf, disk, version, env, meta, version_string, pc, run, conf0,
          fired, shown, nsaves, prev_string>>

NoVersion == [major |-> Absent, minor |-> Absent]
MinusOne == <<"-", "1", ".", "-", "1">>
DefaultVersion == <<"6", ".", "2", "3">>

(* --------------------------- class Version ---------------------------- *)
\* Version.load
VersionLoad(c) ==
  LET major0 == c["version.major"]
      minor0 == c["version.minor"]
      major1 == IF IsStr(major0) THEN PyInt(ParseInt(major0.s)) ELSE major0
      major2 == IF IsStr(minor0) THEN PyInt(ParseInt(minor0.s)) ELSE major1
  IN  [major |-> major2, minor |-> minor0]

\* Version.__eq__
VersionEq(v, other) ==
  LET ver == Split(other)
  IN  PyEqInt(v.major, ParseInt(ver[1])) /\ PyEqInt(v.minor, ParseInt(ver[2]))

(* ----------------------------- helpers -------------------------------- *)
\* lines 73-76: the integer a boolean setting becomes
ResizeSwapped(v) == IF Truthy(v) THEN PyInt(0) ELSE PyInt(1)
ResizeKept(v) == v
ResizeInt(v) == IF Truthy(v) THEN PyInt(1) ELSE PyInt(0)

\* line 86: the keys the loop visits
AllFormatKeys(z) == ZKeys
FormatKeys(z) == {k \in ZKeys : z.d[k].kind # "absent"}

\* lines 88-93
OptEnabled(o) == o.e0
OptArg(o) == IF o.kind = "list" THEN o.e1 ELSE None

\* line 97
ArgTypeFontOnly(k) == IF k \in {"fontcolor"} THEN "color" ELSE "text"
ArgType(k) == IF k \in {"fontcolor", "highlight"} THEN "color" ELSE "text"

\* lines 86-99: special_formatting after the loop
Flattened(c) ==
  LET z == c["z_special_formatting"]
      sf == c["special_formatting"]
  IN  [k \in ZKeys |->
         IF k \in FormatKeys(z)
         THEN [enabled |-> OptEnabled(z.d[k]),
               arg |-> IF OptArg(z.d[k]) # None
                       THEN Arg(ArgType(k), OptArg(z.d[k]))
                       ELSE sf[k].arg]
         ELSE sf[k]]

\* line 111
UndoLeft(c) == c
UndoDeleted(c) == [c EXCEPT !["undo"] = Absent]

\* line 200
TutorialGuardZero(v) == VersionEq(v, <<"0", ".", "0">>)
TutorialGuard(v) == VersionEq(v, MinusOne)

\* lines 204-208
VersionStringMetaFirst(e, m) ==
  IF m.t # "absent" THEN m.s ELSE IF Truthy(e) THEN e.s ELSE DefaultVersion
VersionString(e, m) ==
  IF Truthy(e) THEN e.s
  ELSE IF m.t # "absent" THEN m.s ELSE DefaultVersion

\* lines 210-211
SavedMajor(vs) == PyInt(ParseInt(Split(vs)[1]))
SavedMinorFirst(vs) == PyInt(ParseInt(Split(vs)[1]))
SavedMinor(vs) == PyInt(ParseInt(Split(vs)[2]))

(* ------------------------------ Init ---------------------------------- *)
Init ==
  /\ conf \in InitConfs
  /\ disk = conf
  /\ conf0 = conf
  /\ version = NoVersion
  /\ env \in EnvValues
  /\ meta \in MetaValues
  /\ version_string = <<>>
  /\ pc = "Version"
  /\ run = 1
  /\ fired = {}
  /\ shown = FALSE
  /\ nsaves = 0
  /\ prev_string = <<>>

(* ----------------------------- actions -------------------------------- *)
\* line 44: version = Version()
VersionInit ==
  /\ pc = "Version"
  /\ version' = VersionLoad(conf)
  /\ pc' = "distinguish_initial_install"
  /\ UNCHANGED <<conf, disk, env, meta, version_string, run, conf0, fired,
                 shown, nsaves, prev_string>>

\* lines 52-62
distinguish_initial_install ==
  /\ pc = "distinguish_initial_install"
  /\ pc' = "change_resize_image_preserve_ratio"
  /\ IF VersionEq(version, MinusOne) /\ Truthy(conf["undo"])
     THEN /\ conf' = [conf EXCEPT !["version.major"] = PyInt(0),
                                  !["version.minor"] = PyInt(0)]
          /\ disk' = conf'
          /\ nsaves' = nsaves + 1
          /\ version' = VersionLoad(conf')
          /\ fired' = fired \cup {"distinguish_initial_install"}
     ELSE UNCHANGED <<conf, disk, nsaves, version, fired>>
  /\ UNCHANGED <<env, meta, version_string, run, conf0, shown, prev_string>>

\* lines 68-80
change_resize_image_preserve_ratio ==
  /\ pc = "change_resize_image_preserve_ratio"
  /\ pc' = "change_special_formatting"
  /\ LET resize_conf == conf["resize_image_preserve_ratio"]
     IN  IF ~IsBool(resize_conf)
         THEN UNCHANGED <<conf, disk, nsaves, fired>>
         ELSE /\ conf' = [conf EXCEPT !["resize_image_preserve_ratio"] =
                                        ResizeInt(resize_conf)]
              /\ disk' = conf'
              /\ nsaves' = nsaves + 1
              /\ fired' = fired \cup {"change_resize_image_preserve_ratio"}
  /\ UNCHANGED <<version, env, meta, version_string, run, conf0, shown,
                 prev_string>>

\* lines 83-105
change_special_formatting ==
  /\ pc = "change_special_formatting"
  /\ pc' = "remove_undo"
  /\ IF ~conf["z_special_formatting"].present
     THEN UNCHANGED <<conf, disk, nsaves, fired>>
     ELSE /\ conf' = [conf EXCEPT !["special_formatting"] = Flattened(conf),
                                  !["z_special_formatting"] = NoZ]
          /\ disk' = conf'
          /\ nsaves' = nsaves + 1
          /\ fired' = fired \cup {"change_special_formatting"}
  /\ UNCHANGED <<version, env, meta, version_string, run, conf0, shown,
                 prev_string>>

\* lines 108-115
remove_undo ==
  /\ pc = "remove_undo"
  /\ pc' = "initial_tutorial"
  /\ IF conf["undo"] = Absent
     THEN UNCHANGED <<conf, disk, nsaves, fired>>
     ELSE /\ conf' = UndoDeleted(conf)
          /\ disk' = conf'
          /\ nsaves' = nsaves + 1
          /\ fired' = fired \cup {"remove_undo"}
  /\ UNCHANGED <<version, env, meta, version_string, run, conf0, shown,
                 prev_string>>

\* lines 118-201: if version == "-1.-1": initial_tutorial()
initial_tutorial ==
  /\ pc = "initial_tutorial"
  /\ pc' = "save_version"
  /\ shown' = TutorialGuard(version)
  /\ UNCHANGED <<conf, disk, version, env, meta, version_string, run, conf0,
                 fired, nsaves, prev_string>>

\* lines 203-212: save current version
save_version ==
  /\ pc = "save_version"
  /\ pc' = "done"
  /\ version_string' = VersionString(env, meta)
  /\ conf' = [conf EXCEPT !["version.major"] = SavedMajor(version_string'),
                          !["version.minor"] = SavedMinor(version_string')]
  /\ disk' = conf'
  /\ nsaves' = nsaves + 1
  /\ UNCHANGED <<version, env, meta, run, conf0, fired, shown, prev_string>>

\* the application is started again: the module body runs anew on the
\* config the last run saved (line 9), possibly under another add-on version
Restart ==
  /\ pc = "done"
  /\ run < MaxRuns
  /\ run' = run + 1
  /\ pc' = "Version"
  /\ conf' = disk
  /\ conf0' = disk
  /\ version' = NoVersion
  /\ env' \in EnvValues
  /\ meta' \in MetaValues
  /\ prev_string' = version_string
  /\ version_string' = <<>>
  /\ fired' = {}
  /\ shown' = FALSE
  /\ nsaves' = 0
  /\ UNCHANGED disk

Next ==
  \/ VersionInit
  \/ distinguish_initial_install
  \/ change_resize_image_preserve_ratio
  \/ change_special_formatting
  \/ remove_undo
  \/ initial_tutorial
  \/ save_version
  \/ Restart

Spec == Init /\ [][Next]_vars

(* ---------------------------- properties ------------------------------ *)
\* the current add-on version as the documentation words it
CurrentString ==
  IF env.t = "str" /\ env.s # <<>> THEN env.s
  ELSE IF meta.t = "str" THEN meta.s
  ELSE <<"6", ".", "2", "3">>

\* first and second component of the version strings in use, as integers
Component(vs, i) ==
  CASE vs = <<"6", ".", "5">>      -> <<6, 5>>[i]
    [] vs = <<"7", ".", "0">>      -> <<7, 0>>[i]
    [] vs = <<"6", ".", "2", "3">> -> <<6, 23>>[i]

\* the run started from a stored version of integers -1 and -1
StartedMinusOne ==
  conf0["version.major"] = PyInt(-1) /\ conf0["version.minor"] = PyInt(-1)

\* the run started with a truthy "undo" entry
StartedWithUndo == conf0["undo"].t # "absent" /\ conf0["undo"].n # 0

\* C1: after a completed run the stored version.major and version.minor are
\* the integers of the first and second component of the current version
\* string (EFDRC_VERSION if set and non-empty, else human_version, else 6.23)
C1_VersionRecorded ==
  pc = "done" =>
    /\ conf["version.major"] = PyInt(Component(CurrentString, 1))
    /\ conf["version.minor"] = PyInt(Component(CurrentString, 2))
    /\ disk["version.major"] = PyInt(Component(CurrentString, 1))
    /\ disk["version.minor"] = PyInt(Component(CurrentString, 2))

C1_Witness ==
  /\ pc = "done"
  /\ env = PyStr(<<"7", ".", "0">>)
  /\ meta = PyStr(<<"6", ".", "5">>)
  /\ conf0["version.major"] = PyStr(<<"6">>)
  /\ disk["version.major"] = PyInt(7)

\* C2: once the tutorial guard has been passed, the tutorial was shown in
\* this run iff the run started from the stored version -1.-1 without a
\* truthy "undo" entry
C2_TutorialIffFirstInstall ==
  /\ pc \in {"save_version", "done"} =>
       (shown <=> (StartedMinusOne /\ ~StartedWithUndo))
  /\ pc \notin {"save_version", "done"} => ~shown

C2_Witness == pc = "done" /\ shown /\ conf0["undo"] = PyBool(FALSE)

\* C3: a second run under the same add-on version, on the config the first
\* run left, ends with the store as it began, fires no rewrite and shows
\* no tutorial
C3_Idempotent ==
  (pc = "done" /\ run > 1 /\ prev_string = version_string) =>
    /\ conf = conf0
    /\ disk = conf0
    /\ fired = {}
    /\ ~shown

C3_Witness ==
  pc = "done" /\ run > 1 /\ prev_string = version_string /\ disk = conf0

\* C4: change_resize_image_preserve_ratio turns True into 1 and False into
\* 0; a non-boolean value is left as it is and nothing is saved by the step
C4_ResizeConversion ==
  [][pc = "change_resize_image_preserve_ratio" =>
       LET r == conf["resize_image_preserve_ratio"]
       IN  /\ r = PyBool(TRUE) =>
                conf'["resize_image_preserve_ratio"] = PyInt(1)
           /\ r = PyBool(FALSE) =>
                conf'["resize_image_preserve_ratio"] = PyInt(0)
           /\ r.t # "bool" =>
                conf' = conf /\ disk' = disk /\ nsaves' = nsaves]_vars

C4_Witness ==
  /\ pc = "change_special_formatting"
  /\ conf0["resize_image_preserve_ratio"] = PyBool(TRUE)
  /\ conf["resize_image_preserve_ratio"] = PyInt(1)
  /\ disk["resize_image_preserve_ratio"] = PyInt(1)

\* C5: change_special_formatting sets special_formatting.k.enabled for every
\* key k of z_special_formatting, writes special_formatting.k.arg only for a
\* list entry whose second element is not None (type "color" exactly for
\* fontcolor and highlight), and removes z_special_formatting; without
\* z_special_formatting the step changes nothing
C5_Flattening ==
  [][pc = "change_special_formatting" =>
       LET z == conf["z_special_formatting"]
           sf == conf["special_formatting"]
           sf2 == conf'["special_formatting"]
       IN  /\ z.present =>
                /\ ~conf'["z_special_formatting"].present
                /\ \A k \in ZKeys :
                     z.d[k].kind # "absent" =>
                       /\ sf2[k].enabled = z.d[k].e0
                       /\ IF z.d[k].kind = "list" /\ z.d[k].e1 # None
                          THEN sf2[k].arg =
                                 [present |-> TRUE,
                                  type |-> IF k = "fontcolor" \/ k = "highlight"
                                           THEN "color" ELSE "text",
                                  value |-> z.d[k].e1]
                          ELSE sf2[k].arg = sf[k].arg
           /\ ~z.present => conf' = conf /\ disk' = disk]_vars

C5_Witness ==
  /\ pc = "remove_undo"
  /\ "change_special_formatting" \in fired
  /\ conf0["z_special_formatting"].d["highlight"].kind = "list"
  /\ conf0["z_special_formatting"].d["bold"].kind = "list"
  /\ ~conf0["special_formatting"]["highlight"].arg.present
  /\ conf["special_formatting"]["highlight"].arg.type = "color"
  /\ conf["special_formatting"]["bold"].arg.type = "text"
  /\ ~conf["z_special_formatting"].present

\* the run started from a stored version equal to the current one
StartedCurrent ==
  /\ conf0["version.major"] = PyInt(Component(CurrentString, 1))
  /\ conf0["version.minor"] = PyInt(Component(CurrentString, 2))

\* the run started from a config in the current shape
StartedCurrentShape ==
  /\ conf0["undo"].t = "absent"
  /\ ~conf0["z_special_formatting"].present
  /\ conf0["resize_image_preserve_ratio"].t # "bool"

\* C6 as stated: a run that starts with the stored version equal to the
\* current version fires no migration and leaves every key unchanged
C6_GatedByVersion ==
  (pc = "done" /\ StartedCurrent) => (fired = {} /\ conf = conf0)

\* C6 amended: a run that starts with the stored version equal to the
\* current version and with the config already in the current shape fires
\* no migration and leaves every key unchanged
C6_GatedByShape ==
  (pc = "done" /\ StartedCurrent /\ StartedCurrentShape) =>
    (fired = {} /\ conf = conf0 /\ disk = conf0)

C6_Witness ==
  /\ pc = "done"
  /\ run = 1
  /\ StartedCurrent
  /\ StartedCurrentShape
  /\ nsaves = 1

\* the integer a stored version component denotes
IntValue(v) == IF v.t = "str" THEN ParseInt(v.s) ELSE v.n

\* C7: after Version.load the Version's major and minor are the integer
\* values of the stored major and minor, so version == "M.m" holds exactly
\* when the stored version denotes M.m
C7_LoadParsesStrings ==
  pc = "distinguish_initial_install" =>
    /\ version.major = PyInt(IntValue(conf["version.major"]))
    /\ version.minor = PyInt(IntValue(conf["version.minor"]))
    /\ \A vs \in VersionStrings \cup {MinusOne, DefaultVersion} :
         VersionEq(version, vs) <=>
           /\ IntValue(conf["version.major"]) = ParseInt(Split(vs)[1])
           /\ IntValue(conf["version.minor"]) = ParseInt(Split(vs)[2])

\* C8: distinguish_initial_install rewrites the stored and the in-memory
\* version to 0.0 exactly when the stored version is -1.-1 and "undo" is
\* truthy, and otherwise changes neither; when it runs, "undo" is still
\* the entry the run started with
C8_DistinguishInitialInstall ==
  [][pc = "distinguish_initial_install" =>
       LET pre6 == /\ conf["version.major"] = PyInt(-1)
                   /\ conf["version.minor"] = PyInt(-1)
                   /\ conf["undo"].t # "absent" /\ conf["undo"].n # 0
       IN  /\ conf["undo"] = conf0["undo"]
           /\ "remove_undo" \notin fired
           /\ pre6 =>
                /\ conf'["version.major"] = PyInt(0)
                /\ conf'["version.minor"] = PyInt(0)
                /\ disk' = conf'
                /\ version' = [major |-> PyInt(0), minor |-> PyInt(0)]
           /\ ~pre6 =>
                conf' = conf /\ disk' = disk /\ version' = version]_vars

C8_Witness ==
  /\ pc = "change_resize_image_preserve_ratio"
  /\ StartedMinusOne
  /\ StartedWithUndo
  /\ disk["version.major"] = PyInt(0)
  /\ version = [major |-> PyInt(0), minor |-> PyInt(0)]

\* C9: after a completed run the config has no "undo" and no
\* "z_special_formatting", resize_image_preserve_ratio is not a boolean and
\* version.major and version.minor are integers
C9_CurrentShape ==
  pc = "done" =>
    \A c \in {conf, disk} :
      /\ c["undo"].t = "absent"
      /\ ~c["z_special_formatting"].present
      /\ c["resize_image_preserve_ratio"].t # "bool"
      /\ c["version.major"].t = "int"
      /\ c["version.minor"].t = "int"

C9_Witness ==
  /\ pc = "done"
  /\ conf0["undo"].t # "absent"
  /\ conf0["z_special_formatting"].present
  /\ conf0["resize_image_preserve_ratio"].t = "bool"
  /\ conf0["version.major"].t = "str"
  /\ nsaves = 4

\* C10: a run leaves every key outside version.*, resize, undo,
\* z_special_formatting and special_formatting.<k> (k a key of the old
\* z_special_formatting) as it found it
C10_Frame ==
  \A c \in {conf, disk} :
    /\ c["ctrl_click"] = conf0["ctrl_click"]
    /\ \A k \in ZKeys :
         conf0["z_special_formatting"].d[k].kind = "absent" =>
           c["special_formatting"][k] = conf0["special_formatting"][k]

C10_Witness ==
  /\ pc = "done"
  /\ fired = {"change_resize_image_preserve_ratio",
              "change_special_formatting", "remove_undo"}
  /\ conf0["z_special_formatting"].d["bold"].kind = "absent"
  /\ conf0["z_special_formatting"].d["highlight"].kind = "list"
  /\ conf0["special_formatting"]["bold"].enabled = PyBool(TRUE)
  /\ conf["special_formatting"] # conf0["special_formatting"]

====
